---- MODULE Spec2Model ----
(***************************************************************************)
(* State-machine model of the nova-ui Select and Table components.         *)
(*                                                                         *)
(* Select (components/Select/Select.tsx): the four useState cells          *)
(* internalValue, isOpen, searchQuery, focusedIndex, the props that the    *)
(* handlers read, and one action per DOM event handler.  A handler is an   *)
(* operator from the pending React state (a record) to the pending state   *)
(* after the handler; an action commits that record, which is the          *)
(* re-render that follows the event.  The parent re-rendering the Select   *)
(* with another value prop is an action of its own.                        *)
(*                                                                         *)
(* Table (components/Table/Table.tsx): sortState and currentPage, the     *)
(* props the handlers read, the header click, the pagination buttons, the  *)
(* selection checkboxes and the caller replacing the data prop.            *)
(*                                                                         *)
(* Tooltip (components/Tooltip/Tooltip.tsx): isVisible, the timer that     *)
(* timeoutRef holds, and the four trigger events plus the passing of the   *)
(* hover delay.                                                            *)
(***************************************************************************)
EXTENDS Integers, Sequences, FiniteSets, TLC

VARIABLES
    \* ---- Select props (fixed by the caller, except `disabled`)
    options,          \* SelectOption[]
    controlledValue,  \* props.value
    defaultValue,     \* props.defaultValue
    hasOnChange,      \* whether props.onChange is supplied
    multiple, disabled, searchable, clearable,
    \* ---- Select state (useState)
    internalValue, isOpen, searchQuery, focusedIndex,
    \* ---- Select observation
    ev,         \* the last event
    calls,      \* the onChange invocations made by the last event
    selBefore,  \* the selection before the last event, when it changed the value
    twice,      \* set when the last two events committed the same option
    \* ---- Table props
    columns, data, sortable,
    \* ---- Table state (useState)
    sortState,
    \* ---- Table observation: the header clicks so far
    clickLog,
    \* ---- Table pagination: props and state
    pagination, pageSize, currentPage,
    \* ---- Table selection: props
    rowKey, selectable, hasOnSelectionChange, selectedRowKeys,
    \* ---- Table observation
    tableEv,    \* the last event on the table
    selCalls,   \* the onSelectionChange invocations made by the last event
    \* ---- Tooltip props and state
    tooltipDisabled,  \* props.disabled of the Tooltip
    isVisible,        \* useState
    timeoutRef,       \* timeoutRef.current: a timer id, 0 while undefined
    timers,           \* the timer ids that are scheduled and not cleared
    nextTimer,        \* the id the next setTimeout returns
    mounted,
    \* ---- Tooltip environment
    hover,      \* the pointer and the clock, see HoverStates
    tooltipEv   \* the last event on the trigger

selectProps == <<options, controlledValue, defaultValue, hasOnChange,
                 multiple, searchable, clearable>>
selectState == <<internalValue, isOpen, searchQuery, focusedIndex>>
selectVars  == <<selectProps, disabled, selectState, ev, calls, selBefore, twice>>
tableProps  == <<columns, data, sortable>>
pagingVars  == <<pagination, pageSize, currentPage>>
selectionProps == <<rowKey, selectable, hasOnSelectionChange>>
selectionVars  == <<selectionProps, selectedRowKeys, selCalls>>
tableVars   == <<tableProps, sortState, clickLog, pagingVars, selectionVars, tableEv>>
tooltipState == <<isVisible, timeoutRef, timers, nextTimer, mounted>>
tooltipVars == <<tooltipDisabled, tooltipState, hover, tooltipEv>>
vars        == <<selectVars, tableVars, tooltipVars>>

(***************************************************************************)
(* JavaScript values of type string | (string)[] | undefined.              *)
(***************************************************************************)
Str(s) == [t |-> "str", s |-> s, a |-> <<>>]
Arr(a) == [t |-> "arr", s |-> "", a |-> a]
Undefined == [t |-> "undefined", s |-> "", a |-> <<>>]

isArray(v) == v.t = "arr"

\* JS truthiness: '' and undefined are falsy, every array is truthy.
Truthy(v) == (v.t = "str" /\ v.s # "") \/ v.t = "arr"

\* Array.prototype.includes / filter(v => v !== x) on arrays of values.
ArrIncludes(a, x) == \E i \in 1..Len(a) : a[i] = x
ArrWithout(a, x) == SelectSeq(a, LAMBDA v : v # x)

(***************************************************************************)
(* Strings as sequences of one-character strings, so that toLowerCase and  *)
(* includes are computed rather than assumed.                              *)
(***************************************************************************)
UpperChars == <<"A", "B", "D">>
LowerChars == <<"a", "b", "d">>

charToLowerCase(c) ==
    IF \E i \in 1..Len(UpperChars) : UpperChars[i] = c
    THEN LowerChars[CHOOSE i \in 1..Len(UpperChars) : UpperChars[i] = c]
    ELSE c

toLowerCase(s) == [i \in 1..Len(s) |-> charToLowerCase(s[i])]

\* String.prototype.includes: sub occurs in s as a contiguous substring.
includes(s, sub) ==
    \E i \in 0..(Len(s) - Len(sub)) : SubSeq(s, i + 1, i + Len(sub)) = sub


(***************************************************************************)
(* Select: derived values of one render.                                   *)
(***************************************************************************)
isControlled == controlledValue # Undefined

currentValue == IF isControlled THEN controlledValue ELSE internalValue

\* Variant: the query is not lower-cased before the comparison.
labelMatchesRawQuery(option, query) ==
    includes(toLowerCase(option.label), query)

labelMatches(option, query) ==
    includes(toLowerCase(option.label), toLowerCase(query))

filteredOptions ==
    IF searchable /\ searchQuery # <<>>
    THEN SelectSeq(options, LAMBDA option : labelMatches(option, searchQuery))
    ELSE options

\* The per-option selected flag of the rendered list.
isSelected(option) ==
    IF multiple
    THEN isArray(currentValue) /\ ArrIncludes(currentValue.a, option.value)
    ELSE currentValue = Str(option.value)

showClearButton ==
    clearable /\ (  (multiple /\ isArray(currentValue) /\ Len(currentValue.a) > 0)
                 \/ (~multiple /\ Truthy(currentValue)))

\* useState(defaultValue || (multiple ? [] : ''))
initialInternalValue(dv, multi) ==
    IF Truthy(dv) THEN dv ELSE IF multi THEN Arr(<<>>) ELSE Str("")

(***************************************************************************)
(* Select: handlers.  `st` is the pending React state of the event being   *)
(* handled; reads of isOpen, focusedIndex, currentValue and                *)
(* filteredOptions are reads of the render closure, i.e. of the current    *)
(* state.  st.calls lists the onChange invocations of the event, each with *)
(* its argument list and the pending internalValue at the time of call.    *)
(***************************************************************************)
PendingState ==
    [internalValue |-> internalValue, isOpen |-> isOpen,
     searchQuery |-> searchQuery, focusedIndex |-> focusedIndex,
     calls |-> <<>>]

\* Variant: the private copy is written in controlled mode too.
handleValueChangeAlwaysSets(st, newValue) ==
    LET s1 == [st EXCEPT !.internalValue = newValue]
    IN  IF hasOnChange
        THEN [s1 EXCEPT !.calls =
                 Append(@, [args |-> <<newValue>>,
                            internalAtCall |-> s1.internalValue])]
        ELSE s1

\* Variant: onChange is invoked before setInternalValue.
handleValueChangeCallbackFirst(st, newValue) ==
    LET s1 == IF hasOnChange
              THEN [st EXCEPT !.calls =
                       Append(@, [args |-> <<newValue>>,
                                  internalAtCall |-> st.internalValue])]
              ELSE st
    IN  IF ~isControlled THEN [s1 EXCEPT !.internalValue = newValue] ELSE s1

\* Variant: onChange also receives the resolved option records.
handleValueChangeWithRecords(st, newValue) ==
    LET s1 == IF ~isControlled
              THEN [st EXCEPT !.internalValue = newValue]
              ELSE st
        records == SelectSeq(options, LAMBDA o :
                       IF isArray(newValue) THEN ArrIncludes(newValue.a, o.value)
                                            ELSE newValue = Str(o.value))
    IN  IF hasOnChange
        THEN [s1 EXCEPT !.calls =
                 Append(@, [args |-> <<newValue, records>>,
                            internalAtCall |-> s1.internalValue])]
        ELSE s1

\* Variant: onChange is invoked inside the uncontrolled branch and again after it.
handleValueChangeNotifiesTwice(st, newValue) ==
    LET call == [args |-> <<newValue>>, internalAtCall |-> newValue]
        s1 == IF ~isControlled
              THEN [st EXCEPT !.internalValue = newValue,
                              !.calls = IF hasOnChange THEN Append(@, call) ELSE @]
              ELSE st
    IN  IF hasOnChange THEN [s1 EXCEPT !.calls = Append(@, call)] ELSE s1

handleValueChange(st, newValue) ==
    LET s1 == IF ~isControlled
              THEN [st EXCEPT !.internalValue = newValue]
              ELSE st
    IN  IF hasOnChange
        THEN [s1 EXCEPT !.calls =
                 Append(@, [args |-> <<newValue>>,
                            internalAtCall |-> s1.internalValue])]
        ELSE s1

\* Variant: in multiple mode the clicked value is always appended.
handleOptionClickAlwaysAdds(st, optionValue) ==
    IF multiple
    THEN LET currentArray == IF isArray(currentValue) THEN currentValue.a ELSE <<>>
         IN  handleValueChange(st, Arr(Append(currentArray, optionValue)))
    ELSE [handleValueChange(st, Str(optionValue)) EXCEPT !.isOpen = FALSE]

\* Variant: in multiple mode only the clicked value is reported and stored.
handleOptionClickDelta(st, optionValue) ==
    IF multiple
    THEN handleValueChange(st, Arr(<<optionValue>>))
    ELSE [handleValueChange(st, Str(optionValue)) EXCEPT !.isOpen = FALSE]

handleOptionClick(st, optionValue) ==
    IF multiple
    THEN LET currentArray == IF isArray(currentValue) THEN currentValue.a ELSE <<>>
             newValue == IF ArrIncludes(currentArray, optionValue)
                         THEN ArrWithout(currentArray, optionValue)
                         ELSE Append(currentArray, optionValue)
         IN  handleValueChange(st, Arr(newValue))
    ELSE [handleValueChange(st, Str(optionValue)) EXCEPT !.isOpen = FALSE]

handleClear(st) ==
    [handleValueChange(st, IF multiple THEN Arr(<<>>) ELSE Str(""))
        EXCEPT !.searchQuery = <<>>]

focusedIsValid == focusedIndex >= 0 /\ focusedIndex < Len(filteredOptions)

\* Variant: Enter commits the option at focusedIndex of the full option list.
handleKeyDownFullList(st, key) ==
    IF disabled THEN st
    ELSE CASE key = "Enter" ->
                IF isOpen /\ focusedIsValid
                THEN handleOptionClick(st, options[focusedIndex + 1].value)
                ELSE [st EXCEPT !.isOpen = ~isOpen]
           [] key = "Escape" ->
                [st EXCEPT !.isOpen = FALSE, !.focusedIndex = -1]
           [] key = "ArrowDown" ->
                IF ~isOpen
                THEN [st EXCEPT !.isOpen = TRUE]
                ELSE [st EXCEPT !.focusedIndex =
                         IF @ < Len(filteredOptions) - 1 THEN @ + 1 ELSE 0]
           [] key = "ArrowUp" ->
                IF isOpen
                THEN [st EXCEPT !.focusedIndex =
                         IF @ > 0 THEN @ - 1 ELSE Len(filteredOptions) - 1]
                ELSE st
           [] key = " " ->
                IF ~searchable THEN [st EXCEPT !.isOpen = ~isOpen] ELSE st
           [] OTHER -> st

\* Variant: ArrowDown stops at the last option instead of wrapping.
handleKeyDownArrowDownStops(st, key) ==
    IF disabled THEN st
    ELSE CASE key = "Enter" ->
                IF isOpen /\ focusedIsValid
                THEN handleOptionClick(st, filteredOptions[focusedIndex + 1].value)
                ELSE [st EXCEPT !.isOpen = ~isOpen]
           [] key = "Escape" ->
                [st EXCEPT !.isOpen = FALSE, !.focusedIndex = -1]
           [] key = "ArrowDown" ->
                IF ~isOpen
                THEN [st EXCEPT !.isOpen = TRUE]
                ELSE [st EXCEPT !.focusedIndex =
                         IF @ < Len(filteredOptions) - 1 THEN @ + 1 ELSE @]
           [] key = "ArrowUp" ->
                IF isOpen
                THEN [st EXCEPT !.focusedIndex =
                         IF @ > 0 THEN @ - 1 ELSE Len(filteredOptions) - 1]
                ELSE st
           [] key = " " ->
                IF ~searchable THEN [st EXCEPT !.isOpen = ~isOpen] ELSE st
           [] OTHER -> st

\* Variant: Escape closes the list and keeps focusedIndex.
handleKeyDownEscapeKeepsFocus(st, key) ==
    IF disabled THEN st
    ELSE CASE key = "Enter" ->
                IF isOpen /\ focusedIsValid
                THEN handleOptionClick(st, filteredOptions[focusedIndex + 1].value)
                ELSE [st EXCEPT !.isOpen = ~isOpen]
           [] key = "Escape" ->
                [st EXCEPT !.isOpen = FALSE]
           [] key = "ArrowDown" ->
                IF ~isOpen
                THEN [st EXCEPT !.isOpen = TRUE]
                ELSE [st EXCEPT !.focusedIndex =
                         IF @ < Len(filteredOptions) - 1 THEN @ + 1 ELSE 0]
           [] key = "ArrowUp" ->
                IF isOpen
                THEN [st EXCEPT !.focusedIndex =
                         IF @ > 0 THEN @ - 1 ELSE Len(filteredOptions) - 1]
                ELSE st
           [] key = " " ->
                IF ~searchable THEN [st EXCEPT !.isOpen = ~isOpen] ELSE st
           [] OTHER -> st

handleKeyDown(st, key) ==
    IF disabled THEN st
    ELSE CASE key = "Enter" ->
                IF isOpen /\ focusedIsValid
                THEN handleOptionClick(st, filteredOptions[focusedIndex + 1].value)
                ELSE [st EXCEPT !.isOpen = ~isOpen]
           [] key = "Escape" ->
                [st EXCEPT !.isOpen = FALSE, !.focusedIndex = -1]
           [] key = "ArrowDown" ->
                IF ~isOpen
                THEN [st EXCEPT !.isOpen = TRUE]
                ELSE [st EXCEPT !.focusedIndex =
                         IF @ < Len(filteredOptions) - 1 THEN @ + 1 ELSE 0]
           [] key = "ArrowUp" ->
                IF isOpen
                THEN [st EXCEPT !.focusedIndex =
                         IF @ > 0 THEN @ - 1 ELSE Len(filteredOptions) - 1]
                ELSE st
           [] key = " " ->
                IF ~searchable THEN [st EXCEPT !.isOpen = ~isOpen] ELSE st
           [] OTHER -> st

handleClickOutside(st) ==
    [st EXCEPT !.isOpen = FALSE, !.searchQuery = <<>>, !.focusedIndex = -1]

\* onClick of the trigger: !disabled && setIsOpen(!isOpen)
triggerOnClick(st) ==
    IF ~disabled THEN [st EXCEPT !.isOpen = ~isOpen] ELSE st

\* onClick of the option at position index (0-based) of the rendered list:
\* !option.disabled && handleOptionClick(option.value)
optionOnClick(st, index) ==
    LET option == filteredOptions[index + 1]
    IN  IF ~option.disabled THEN handleOptionClick(st, option.value) ELSE st

\* onMouseEnter of the option at position index: setFocusedIndex(index)
optionOnMouseEnter(st, index) == [st EXCEPT !.focusedIndex = index]

\* onChange of the search input: setSearchQuery(e.target.value)
searchOnChange(st, query) == [st EXCEPT !.searchQuery = query]

(***************************************************************************)
(* Select: the fixture.  Three options as in the component's tests         *)
(* (mockOptions), the third one disabled.                                  *)
(***************************************************************************)
mockOptions ==
    << [value |-> "apple",  label |-> <<"A", "b">>,      disabled |-> FALSE],
       [value |-> "banana", label |-> <<"B", "a", "d">>, disabled |-> FALSE],
       [value |-> "date",   label |-> <<"D", "a", "b">>, disabled |-> TRUE] >>

\* What the user types into the search box.
SearchQueries == { <<>>, <<"a">>, <<"A", "B">>, <<"d">>, <<"b", "b">> }

Keys == {"Enter", "Escape", "ArrowDown", "ArrowUp", " "}

NoValue == "none"

\* An event, with the isOpen and focusedIndex it found.
Event(kind, key, committed) ==
    [kind |-> kind, key |-> key, committed |-> committed,
     open |-> isOpen, focus |-> focusedIndex]

\* The option value an Enter key press hands to handleOptionClick, if any.
enterTarget ==
    IF ~disabled /\ isOpen /\ focusedIsValid
    THEN filteredOptions[focusedIndex + 1].value
    ELSE NoValue

NoTwice == [value |-> NoValue, before |-> Undefined]

\* The re-render after an event: the pending state becomes the state.
Commit(st, e) ==
    /\ internalValue' = st.internalValue
    /\ isOpen' = st.isOpen
    /\ searchQuery' = st.searchQuery
    /\ focusedIndex' = st.focusedIndex
    /\ calls' = st.calls
    /\ ev' = e
    /\ selBefore' = IF e.committed # NoValue \/ e.kind = "clear"
                    THEN currentValue ELSE Undefined
    /\ twice' = IF e.committed # NoValue /\ ev.committed = e.committed
                THEN [value |-> e.committed, before |-> selBefore]
                ELSE NoTwice
    /\ UNCHANGED <<selectProps, disabled, tableVars, tooltipVars>>

(***************************************************************************)
(* Select: one action per user event.                                      *)
(***************************************************************************)
TriggerClick ==
    Commit(triggerOnClick(PendingState), Event("triggerClick", "", NoValue))

\* The option elements exist only while the list is rendered.
OptionClick(index) ==
    /\ isOpen
    /\ index < Len(filteredOptions)
    /\ Commit(optionOnClick(PendingState, index),
              Event("optionClick", "",
                    IF filteredOptions[index + 1].disabled
                    THEN NoValue ELSE filteredOptions[index + 1].value))

OptionMouseEnter(index) ==
    /\ isOpen
    /\ index < Len(filteredOptions)
    /\ Commit(optionOnMouseEnter(PendingState, index),
              Event("hover", "", NoValue))

KeyDown(key) ==
    Commit(handleKeyDown(PendingState, key),
           Event("key", key, IF key = "Enter" THEN enterTarget ELSE NoValue))

\* The search input exists only while the list is rendered and searchable.
SearchInput(query) ==
    /\ isOpen
    /\ searchable
    /\ Commit(searchOnChange(PendingState, query), Event("search", "", NoValue))

\* The clear button exists only while showClearButton holds.
ClearClick ==
    /\ showClearButton
    /\ Commit(handleClear(PendingState), Event("clear", "", NoValue))

\* mousedown on the document outside selectRef.
ClickOutside ==
    Commit(handleClickOutside(PendingState), Event("clickOutside", "", NoValue))

\* The caller re-renders the Select with the disabled prop changed.
SetDisabled(b) ==
    /\ b # disabled
    /\ disabled' = b
    /\ calls' = <<>>
    /\ ev' = Event("render", "", NoValue)
    /\ selBefore' = Undefined
    /\ twice' = NoTwice
    /\ UNCHANGED <<selectProps, selectState, tableVars, tooltipVars>>

(***************************************************************************)
(* Table placeholders while the Select is the component under study.       *)
(***************************************************************************)
NoSort == [key |-> "null", direction |-> "null"]

TableMountEvent == [kind |-> "mount", row |-> 0]

\* The defaults of the optional props: no pagination, page size 10, rowKey
\* 'id', not selectable, selectedRowKeys [], no onSelectionChange.
TableDefaults ==
    /\ pagination = FALSE
    /\ pageSize = 10
    /\ currentPage = 1
    /\ rowKey = "id"
    /\ selectable = FALSE
    /\ hasOnSelectionChange = FALSE
    /\ selectedRowKeys = <<>>
    /\ selCalls = <<>>
    /\ tableEv = TableMountEvent

TableUnmounted ==
    /\ columns = <<>>
    /\ data = <<>>
    /\ sortable = FALSE
    /\ sortState = NoSort
    /\ clickLog = <<>>
    /\ TableDefaults

(***************************************************************************)
(* Tooltip placeholders while another component is under study.            *)
(***************************************************************************)
TooltipUnmounted ==
    /\ tooltipDisabled = FALSE
    /\ isVisible = FALSE
    /\ timeoutRef = 0
    /\ timers = {}
    /\ nextTimer = 1
    /\ mounted = FALSE
    /\ hover = "out"
    /\ tooltipEv = "mount"

(***************************************************************************)
(* Select: specification.  The props are chosen by the caller at mount.    *)
(***************************************************************************)
SelectInit ==
    /\ options = mockOptions
    /\ multiple \in BOOLEAN
    /\ disabled \in BOOLEAN
    /\ searchable \in BOOLEAN
    /\ clearable \in BOOLEAN
    /\ hasOnChange \in BOOLEAN
    /\ controlledValue \in
          {Undefined} \cup (IF multiple THEN {Arr(<<>>), Arr(<<"banana">>)}
                                        ELSE {Str(""), Str("banana")})
    /\ defaultValue \in
          (IF isControlled THEN {} ELSE {Undefined})
             \cup (IF multiple THEN {Arr(<<"apple">>)} ELSE {Str("apple")})
    /\ internalValue = initialInternalValue(defaultValue, multiple)
    /\ isOpen = FALSE
    /\ searchQuery = <<>>
    /\ focusedIndex = -1
    /\ calls = <<>>
    /\ ev = Event("mount", "", NoValue)
    /\ selBefore = Undefined
    /\ twice = NoTwice

Init == SelectInit /\ TableUnmounted /\ TooltipUnmounted

Next ==
    \/ TriggerClick
    \/ \E index \in 0..(Len(options) - 1) : OptionClick(index)
    \/ \E index \in 0..(Len(options) - 1) : OptionMouseEnter(index)
    \/ \E key \in Keys : KeyDown(key)
    \/ \E query \in SearchQueries : SearchInput(query)
    \/ ClearClick
    \/ ClickOutside
    \/ \E b \in BOOLEAN : SetDisabled(b)

Spec == Init /\ [][Next]_vars


(***************************************************************************)
(* Vocabulary of the properties.                                           *)
(***************************************************************************)
optionWithValue(v) == options[CHOOSE i \in 1..Len(options) : options[i].value = v]

isEnabledValue(v) ==
    /\ \E i \in 1..Len(options) : options[i].value = v
    /\ ~optionWithValue(v).disabled

\* The values a selection holds, as a set.
valuesOf(selection) ==
    IF selection.t = "arr" THEN {selection.a[i] : i \in 1..Len(selection.a)}
    ELSE IF selection.t = "str" /\ selection.s # "" THEN {selection.s}
    ELSE {}

\* The values of the options the render marks as selected.
renderedSelection ==
    {options[i].value : i \in {j \in 1..Len(options) : isSelected(options[j])}}

\* The last event committed an enabled option or cleared the value.
committedEnabled == ev.committed # NoValue /\ isEnabledValue(ev.committed)
changedSelection == committedEnabled \/ ev.kind = "clear"

\* The selection that toggling v in, or clearing, the selection `before` asks for.
toggled(before, v) ==
    IF multiple
    THEN Arr(IF v \in valuesOf(before)
             THEN SelectSeq(before.a, LAMBDA x : x # v)
             ELSE before.a \o <<v>>)
    ELSE Str(v)

emptySelection == IF multiple THEN Arr(<<>>) ELSE Str("")

requestedSelection ==
    IF ev.kind = "clear" THEN emptySelection ELSE toggled(selBefore, ev.committed)

(***************************************************************************)
(* C1.  In an uncontrolled Select whose initial selection holds no         *)
(* disabled option, the selection never holds the value of a disabled      *)
(* option and onChange is never invoked with one newly selected, whatever  *)
(* the user does (Enter on a focused or hovered disabled option included). *)
(***************************************************************************)
C1_DisabledNeverSelected ==
    ~isControlled =>
        \A i \in 1..Len(options) :
            options[i].disabled =>
                /\ options[i].value \notin valuesOf(currentValue)
                /\ \A c \in 1..Len(calls) :
                       options[i].value \notin valuesOf(calls[c].args[1])

(***************************************************************************)
(* C2.  In controlled mode, with a caller that never changes the supplied  *)
(* value, the rendered selection stays the supplied value after any        *)
(* toggles and clears, and the private copy keeps its initial value.       *)
(***************************************************************************)
C2_ControlledDoesNotSelfUpdate ==
    isControlled =>
        /\ renderedSelection = valuesOf(controlledValue)
        /\ internalValue = initialInternalValue(defaultValue, multiple)

C2_Witness ==
    /\ isControlled
    /\ changedSelection
    /\ Len(calls) = 1
    /\ calls[1].args[1] # controlledValue
    /\ internalValue # calls[1].args[1]

(***************************************************************************)
(* C3.  In uncontrolled mode a toggle or clear stores the new selection    *)
(* before the callback runs: the callback, if any, sees the private copy   *)
(* already updated, and the rendered selection after the event is the new  *)
(* selection with or without a callback.                                   *)
(***************************************************************************)
C3_UncontrolledUpdatesBeforeCallback ==
    (~isControlled /\ changedSelection) =>
        /\ currentValue = requestedSelection
        /\ renderedSelection = valuesOf(requestedSelection)
        /\ \A c \in 1..Len(calls) : calls[c].internalAtCall = calls[c].args[1]

C3_Witness ==
    /\ ~isControlled
    /\ ~hasOnChange
    /\ ev.committed = "banana"
    /\ selBefore = Str("apple")
    /\ renderedSelection = {"banana"}

(***************************************************************************)
(* C4.  In uncontrolled multiple mode, toggling the same enabled option    *)
(* twice in a row gives back the selected set held before the first        *)
(* toggle.                                                                 *)
(***************************************************************************)
C4_ToggleTwiceRestoresSet ==
    (multiple /\ ~isControlled /\ twice.value # NoValue /\ isEnabledValue(twice.value)) =>
        /\ valuesOf(currentValue) = valuesOf(twice.before)
        /\ renderedSelection = valuesOf(twice.before)

C4_Witness ==
    /\ multiple
    /\ ~isControlled
    /\ twice.value = "banana"
    /\ twice.before = Arr(<<"apple", "banana">>)
    /\ currentValue = Arr(<<"apple", "banana">>)

(***************************************************************************)
(* C5.  A toggle of an enabled option and a clear pass to onChange the     *)
(* complete new selection in the form of the mode: the bare value ('' for  *)
(* clear) in single mode, the full list in selection order ([] for clear)  *)
(* in multiple mode.                                                       *)
(***************************************************************************)
C5_OnChangeGetsFullSelection ==
    (hasOnChange /\ changedSelection) =>
        /\ Len(calls) >= 1
        /\ \A c \in 1..Len(calls) :
              /\ calls[c].args[1] = requestedSelection
              /\ calls[c].args[1].t = (IF multiple THEN "arr" ELSE "str")

C5_Witness ==
    /\ multiple
    /\ hasOnChange
    /\ ev.committed = "banana"
    /\ selBefore = Arr(<<"apple">>)
    /\ Len(calls) = 1
    /\ calls[1].args[1] = Arr(<<"apple", "banana">>)

C7_OneCallPerCommit ==
    hasOnChange =>
        /\ changedSelection => Len(calls) = 1
        /\ (  ev.kind \in {"triggerClick", "hover", "search", "clickOutside"}
           \/ (ev.kind = "key" /\ ev.committed = NoValue)) => Len(calls) = 0

C7_Witness ==
    /\ hasOnChange
    /\ ev.kind = "key"
    /\ ev.key = "Enter"
    /\ ev.committed = "banana"
    /\ Len(calls) = 1

(***************************************************************************)
(* C9.  A disabled Select is inert: while disabled is true no user event   *)
(* opens the list, changes the selection or invokes onChange.              *)
(***************************************************************************)
C9_DisabledIsInert ==
    [][(disabled /\ disabled') =>
          /\ (isOpen' => isOpen)
          /\ currentValue' = currentValue
          /\ calls' = <<>>]_vars

(***************************************************************************)
(* Search filter: a searchable Select mounted over every small registry,   *)
(* the user typing and deleting one character at a time.                   *)
(***************************************************************************)
MaxOptions == 2
MaxLabelLen == 2
MaxQueryLen == 2

LabelChars == {"a", "B"}
QueryChars == {"a", "A", "b"}

StringsUpTo(chars, n) == UNION {[1..k -> chars] : k \in 0..n}

optionValueNames == <<"v1", "v2", "v3", "v4">>

FilterRegistries ==
    UNION { { [i \in 1..k |-> [value |-> optionValueNames[i],
                               label |-> labels[i],
                               disabled |-> FALSE]]
              : labels \in [1..k -> StringsUpTo(LabelChars, MaxLabelLen)] }
            : k \in 0..MaxOptions }

TypeChar(c) ==
    /\ Len(searchQuery) < MaxQueryLen
    /\ SearchInput(Append(searchQuery, c))

Backspace ==
    /\ searchQuery # <<>>
    /\ SearchInput(SubSeq(searchQuery, 1, Len(searchQuery) - 1))

FilterInit ==
    /\ options \in FilterRegistries
    /\ multiple = FALSE
    /\ disabled = FALSE
    /\ searchable = TRUE
    /\ clearable = FALSE
    /\ hasOnChange = FALSE
    /\ controlledValue = Undefined
    /\ defaultValue = Undefined
    /\ internalValue = initialInternalValue(defaultValue, multiple)
    /\ isOpen = FALSE
    /\ searchQuery = <<>>
    /\ focusedIndex = -1
    /\ calls = <<>>
    /\ ev = Event("mount", "", NoValue)
    /\ selBefore = Undefined
    /\ twice = NoTwice
    /\ TableUnmounted
    /\ TooltipUnmounted

FilterNext ==
    \/ TriggerClick
    \/ \E c \in QueryChars : TypeChar(c)
    \/ Backspace

FilterSpec == FilterInit /\ [][FilterNext]_vars

\* Two characters are the same letter when they are equal or an
\* upper-case / lower-case pair.
sameLetter(c, d) ==
    \/ c = d
    \/ \E i \in 1..Len(UpperChars) : {c, d} = {UpperChars[i], LowerChars[i]}

containsIgnoringCase(label, q) ==
    \E k \in 0..(Len(label) - Len(q)) :
        \A j \in 1..Len(q) : sameLetter(label[k + j], q[j])

(***************************************************************************)
(* C8.  The list shown for a query q is exactly the subsequence of the     *)
(* supplied options, in their order, whose label contains q ignoring       *)
(* case; for the empty query it is the full list; the supplied options     *)
(* are never changed.                                                      *)
(***************************************************************************)
C8_FilterIsCaseInsensitiveSubsequence ==
    [][ /\ options' = options
        /\ filteredOptions' =
              SelectSeq(options, LAMBDA o : containsIgnoringCase(o.label, searchQuery'))
        /\ (searchQuery' = <<>> => filteredOptions' = options) ]_vars

C8_Witness ==
    /\ Len(options) = 2
    /\ options[1].label = <<"B">>
    /\ options[2].label = <<"B", "a">>
    /\ searchQuery = <<"b", "A">>
    /\ filteredOptions = <<options[2]>>

(***************************************************************************)
(* Table: values of the cells.  Numbers compare numerically, strings       *)
(* (sequences of character codes) lexicographically, as JavaScript's < and *)
(* > do on operands of one type.                                           *)
(***************************************************************************)
Num(n) == [t |-> "num", n |-> n, s |-> <<>>]
Txt(codes) == [t |-> "str", n |-> 0, s |-> codes]

RECURSIVE lexLess(_, _)
lexLess(x, y) ==
    IF y = <<>> THEN FALSE
    ELSE IF x = <<>> THEN TRUE
    ELSE IF x[1] # y[1] THEN x[1] < y[1]
    ELSE lexLess(Tail(x), Tail(y))

jsLess(a, b) ==
    IF a.t = "num" /\ b.t = "num" THEN a.n < b.n
    ELSE IF a.t = "str" /\ b.t = "str" THEN lexLess(a.s, b.s)
    ELSE FALSE

(***************************************************************************)
(* Table: sorting.                                                         *)
(***************************************************************************)
\* columns.find(col => col.key === key); the key of a sort state is always
\* the key of a rendered column.
findColumn(key) == columns[CHOOSE i \in 1..Len(columns) : columns[i].key = key]

hasColumn(key) == \E i \in 1..Len(columns) : columns[i].key = key

\* Variant: a comparator that never reports a tie.
compareRowsNeverTies(ss, a, b) ==
    IF ~hasColumn(ss.key) THEN 0
    ELSE LET column == findColumn(ss.key)
             field == IF column.dataIndex # "" THEN column.dataIndex ELSE ss.key
             aValue == a[field]
             bValue == b[field]
         IN  IF jsLess(aValue, bValue) THEN (IF ss.direction = "asc" THEN -1 ELSE 1)
             ELSE (IF ss.direction = "asc" THEN 1 ELSE -1)

\* The comparator handed to Array.prototype.sort.
compareRows(ss, a, b) ==
    IF ~hasColumn(ss.key) THEN 0
    ELSE LET column == findColumn(ss.key)
             field == IF column.dataIndex # "" THEN column.dataIndex ELSE ss.key
             aValue == a[field]
             bValue == b[field]
         IN  IF jsLess(aValue, bValue) THEN (IF ss.direction = "asc" THEN -1 ELSE 1)
             ELSE IF jsLess(bValue, aValue) THEN (IF ss.direction = "asc" THEN 1 ELSE -1)
             ELSE 0

\* Array.prototype.sort is stable: x goes behind every element that does
\* not compare greater than it.
RECURSIVE insertSorted(_, _, _)
insertSorted(ss, sorted, x) ==
    IF sorted = <<>> THEN <<x>>
    ELSE IF compareRows(ss, sorted[Len(sorted)], x) <= 0
         THEN Append(sorted, x)
         ELSE Append(insertSorted(ss, SubSeq(sorted, 1, Len(sorted) - 1), x),
                     sorted[Len(sorted)])

RECURSIVE stableSort(_, _)
stableSort(ss, rows) ==
    IF rows = <<>> THEN <<>>
    ELSE insertSorted(ss, stableSort(ss, SubSeq(rows, 1, Len(rows) - 1)),
                      rows[Len(rows)])

sortedDataOf(ss) ==
    IF ss.key = "null" \/ ss.direction = "null" THEN data ELSE stableSort(ss, data)

sortedData == sortedDataOf(sortState)

\* Variant: a two-state toggle, descending goes back to ascending.
handleSortNeverResets(prev, columnKey) ==
    IF ~sortable THEN prev
    ELSE IF prev.key = columnKey /\ prev.direction = "asc"
         THEN [key |-> columnKey, direction |-> "desc"]
         ELSE [key |-> columnKey, direction |-> "asc"]

\* Variant: the third click drops the direction and keeps the column.
handleSortKeepsKey(prev, columnKey) ==
    IF ~sortable THEN prev
    ELSE IF prev.key = columnKey /\ prev.direction = "asc"
         THEN [key |-> columnKey, direction |-> "desc"]
    ELSE IF prev.key = columnKey /\ prev.direction = "desc"
         THEN [key |-> columnKey, direction |-> "null"]
    ELSE [key |-> columnKey, direction |-> "asc"]

\* handleSort(columnKey): the sort state that setSortState produces from prev.
handleSort(prev, columnKey) ==
    IF ~sortable THEN prev
    ELSE IF prev.key = columnKey /\ prev.direction = "asc"
         THEN [key |-> columnKey, direction |-> "desc"]
    ELSE IF prev.key = columnKey /\ prev.direction = "desc"
         THEN NoSort
    ELSE [key |-> columnKey, direction |-> "asc"]

\* onClick of a header cell: column.sortable !== false && handleSort(column.key)
headerOnClick(prev, column) ==
    IF column.sortable # "false" THEN handleSort(prev, column.key) ELSE prev

(***************************************************************************)
(* Table: the fixture and the specification.                               *)
(***************************************************************************)
MaxRows == 3
MaxClicks == 3

\* name is sortable, age sorts through dataIndex, email opts out of sorting.
tableColumns ==
    << [key |-> "name",  dataIndex |-> "",    sortable |-> "true"],
       [key |-> "years", dataIndex |-> "age", sortable |-> "undefined"],
       [key |-> "email", dataIndex |-> "",    sortable |-> "false"] >>

Names == {Txt(<<1>>), Txt(<<1, 2>>), Txt(<<2>>)}
Ages == {Num(25), Num(30)}

Datasets ==
    UNION { { [i \in 1..k |-> [id |-> Num(i), name |-> f[i][1], age |-> f[i][2],
                               email |-> Txt(<<i>>)]]
              : f \in [1..k -> Names \X Ages] }
            : k \in 0..MaxRows }

SelectUnmounted ==
    /\ options = <<>>
    /\ multiple = FALSE
    /\ disabled = FALSE
    /\ searchable = FALSE
    /\ clearable = FALSE
    /\ hasOnChange = FALSE
    /\ controlledValue = Undefined
    /\ defaultValue = Undefined
    /\ internalValue = Str("")
    /\ isOpen = FALSE
    /\ searchQuery = <<>>
    /\ focusedIndex = -1
    /\ calls = <<>>
    /\ ev = Event("mount", "", NoValue)
    /\ selBefore = Undefined
    /\ twice = NoTwice

TableInit ==
    /\ columns = tableColumns
    /\ data \in Datasets
    /\ sortable \in BOOLEAN
    /\ sortState = NoSort
    /\ clickLog = <<>>
    /\ TableDefaults
    /\ SelectUnmounted
    /\ TooltipUnmounted

\* A click on the header cell of the column at position c.
HeaderClick(c) ==
    /\ Len(clickLog) < MaxClicks
    /\ sortState' = headerOnClick(sortState, columns[c])
    /\ clickLog' = Append(clickLog, [column |-> columns[c].key, after |-> sortState'])
    /\ tableEv' = [kind |-> "sort", row |-> 0]
    /\ selCalls' = <<>>
    /\ UNCHANGED <<tableProps, pagingVars, selectionProps, selectedRowKeys,
                   selectVars, tooltipVars>>

TableNext == \E c \in 1..Len(tableColumns) : HeaderClick(c)

TableSpec == TableInit /\ [][TableNext]_vars

\* The sort state in which the i-th logged click found the table.
sortStateBefore(i) == IF i = 1 THEN NoSort ELSE clickLog[i - 1].after

isSortableColumn(key) == hasColumn(key) /\ findColumn(key).sortable # "false"

Asc(key) == [key |-> key, direction |-> "asc"]
Desc(key) == [key |-> key, direction |-> "desc"]

(***************************************************************************)
(* C10.  With sorting enabled, clicks on one sortable column cycle it      *)
(* unsorted -> ascending -> descending -> unsorted, so three clicks in a   *)
(* row on it give the original row order back; a click on another          *)
(* sortable column yields that column ascending, from any sort state.      *)
(***************************************************************************)
C10_SortCycle ==
    sortable =>
        /\ \A i \in 1..Len(clickLog) :
              LET c == clickLog[i].column
                  before == sortStateBefore(i)
                  after == clickLog[i].after
              IN  isSortableColumn(c) =>
                     /\ before.key # c => after = Asc(c)
                     /\ before = Asc(c) => after = Desc(c)
                     /\ before = Desc(c) => after = NoSort
        /\ \A i \in 1..(Len(clickLog) - 2) :
              (/\ isSortableColumn(clickLog[i].column)
               /\ clickLog[i + 1].column = clickLog[i].column
               /\ clickLog[i + 2].column = clickLog[i].column
               /\ sortStateBefore(i) = NoSort)
              => /\ clickLog[i + 2].after = NoSort
                 /\ sortedDataOf(clickLog[i + 2].after) = data

C10_Witness ==
    /\ sortable
    /\ Len(clickLog) = 3
    /\ \A i \in 1..3 : clickLog[i].column = "name"
    /\ clickLog[1].after = Asc("name")
    /\ sortedDataOf(clickLog[1].after) # data
    /\ clickLog[2].after = Desc("name")
    /\ sortState = NoSort
    /\ sortedData = data

(***************************************************************************)
(* Vocabulary of the sorting property.                                     *)
(***************************************************************************)
\* What a row shows in a column:
\* column.dataIndex ? record[column.dataIndex] : record[column.key]
cellValue(column, record) ==
    IF column.dataIndex # "" THEN record[column.dataIndex] ELSE record[column.key]

Bijections(n) == { p \in [1..n -> 1..n] : \A i, j \in 1..n : p[i] = p[j] => i = j }

\* view shows the rows of rows in the order p, ordered by the column of
\* ss in the direction of ss, rows of equal value in their order in rows.
isStableOrdering(ss, rows, view, p) ==
    LET column == findColumn(ss.key)
        v(i) == cellValue(column, view[i])
    IN  /\ \A i \in 1..Len(view) : view[i] = rows[p[i]]
        /\ \A i, j \in 1..Len(view) :
              i < j =>
                /\ IF ss.direction = "asc" THEN ~jsLess(v(j), v(i))
                                           ELSE ~jsLess(v(i), v(j))
                /\ v(i) = v(j) => p[i] < p[j]

isStableSortOf(ss, rows, view) ==
    /\ Len(view) = Len(rows)
    /\ \E p \in Bijections(Len(rows)) : isStableOrdering(ss, rows, view, p)

hasTie(ss, rows) ==
    \E i, j \in 1..Len(rows) :
        i < j /\ cellValue(findColumn(ss.key), rows[i]) = cellValue(findColumn(ss.key), rows[j])

(***************************************************************************)
(* C11.  While a sort is active the rendered rows are a permutation of the *)
(* data ordered by the sorted column's value in the active direction,      *)
(* ascending or descending, with rows of equal value in their original     *)
(* relative order; no header click changes the caller's data array.        *)
(***************************************************************************)
C11_SortIsStablePermutation ==
    /\ [](sortState # NoSort => isStableSortOf(sortState, data, sortedData))
    /\ [][data' = data]_vars

C11_Witness ==
    /\ sortState = Desc("name")
    /\ hasTie(sortState, data)
    /\ sortedData # data
    /\ tableEv.kind = "sort"

(***************************************************************************)
(* Table: pagination.                                                      *)
(***************************************************************************)
Min(a, b) == IF a <= b THEN a ELSE b
Max(a, b) == IF a >= b THEN a ELSE b

\* Math.ceil(n / d) for n >= 0 and d > 0.
ceilDiv(n, d) == (n + d - 1) \div d

\* Array.prototype.slice(start, end) for 0 <= start <= end.
slice(arr, start, end) == SubSeq(arr, start + 1, Min(end, Len(arr)))

\* The page count of the footer: Math.ceil(sortedData.length / pageSize).
totalPages == ceilDiv(Len(sortedData), pageSize)

paginatedData ==
    IF ~pagination THEN sortedData
    ELSE LET start == (currentPage - 1) * pageSize
         IN  slice(sortedData, start, start + pageSize)

\* The disabled attributes of the two buttons.
previousDisabled == currentPage = 1

\* Variant: a Next button that is never disabled.
nextNeverDisabled == FALSE

nextDisabled == currentPage >= totalPages

\* The updater functions handed to setCurrentPage.
previousOnClick(prev) == Max(1, prev - 1)
nextOnClick(prev) == Min(totalPages, prev + 1)

TableEvent(kind, row) == [kind |-> kind, row |-> row]

\* A click on a button reaches its onClick only while the button is enabled.
PreviousClick ==
    /\ pagination
    /\ currentPage' = IF previousDisabled THEN currentPage
                                          ELSE previousOnClick(currentPage)
    /\ tableEv' = TableEvent("previous", 0)
    /\ selCalls' = <<>>
    /\ UNCHANGED <<tableProps, sortState, clickLog, pagination, pageSize,
                   selectionProps, selectedRowKeys, selectVars, tooltipVars>>

NextClick ==
    /\ pagination
    /\ currentPage' = IF nextDisabled THEN currentPage
                                      ELSE nextOnClick(currentPage)
    /\ tableEv' = TableEvent("next", 0)
    /\ selCalls' = <<>>
    /\ UNCHANGED <<tableProps, sortState, clickLog, pagination, pageSize,
                   selectionProps, selectedRowKeys, selectVars, tooltipVars>>

\* A click on the header cell of the column at position c, not logged.
ColumnClick(c) ==
    /\ sortState' = headerOnClick(sortState, columns[c])
    /\ tableEv' = TableEvent("sort", 0)
    /\ selCalls' = <<>>
    /\ UNCHANGED <<tableProps, clickLog, pagingVars, selectionProps,
                   selectedRowKeys, selectVars, tooltipVars>>

\* The caller renders the table again with another data prop; the state
\* cells keep their values.
ReplaceData(d) ==
    /\ data' = d
    /\ tableEv' = TableEvent("data", 0)
    /\ selCalls' = <<>>
    /\ UNCHANGED <<columns, sortable, sortState, clickLog, pagingVars,
                   selectionProps, selectedRowKeys, selectVars, tooltipVars>>

(***************************************************************************)
(* Table: the pagination fixture and specification.                        *)
(***************************************************************************)
MaxPageRows == 3
PageSizes == {1, 2}
PageNames == {Txt(<<1>>), Txt(<<2>>)}

TableRow(i, id, name) ==
    [id |-> id, name |-> name, age |-> Num(25), email |-> Txt(<<i>>)]

PageDatasets ==
    UNION { { [i \in 1..k |-> TableRow(i, Num(i), f[i])] : f \in [1..k -> PageNames] }
            : k \in 0..MaxPageRows }

PageInit ==
    /\ columns = tableColumns
    /\ data \in PageDatasets
    /\ sortable \in BOOLEAN
    /\ sortState = NoSort
    /\ clickLog = <<>>
    /\ pagination \in BOOLEAN
    /\ pageSize \in PageSizes
    /\ currentPage = 1
    /\ rowKey = "id"
    /\ selectable = FALSE
    /\ hasOnSelectionChange = FALSE
    /\ selectedRowKeys = <<>>
    /\ selCalls = <<>>
    /\ tableEv = TableMountEvent
    /\ SelectUnmounted
    /\ TooltipUnmounted

PageNext ==
    \/ PreviousClick
    \/ NextClick
    \/ \E c \in 1..Len(tableColumns) : ColumnClick(c)
    \/ \E d \in PageDatasets : ReplaceData(d)

PageSpec == PageInit /\ [][PageNext]_vars

\* The page count of the pagination contract.
lastPage(rowCount) == Max(1, ceilDiv(rowCount, pageSize))

(***************************************************************************)
(* C12.  In every state of the paginated table currentPage is at most      *)
(* max(1, ceil(rowCount / pageSize)), also after the caller has replaced   *)
(* data with a shorter dataset.                                            *)
(***************************************************************************)
C12_PageWithinRowCount ==
    pagination => currentPage <= lastPage(Len(data))

(***************************************************************************)
(* C13.  With pagination on, for every dataset size the page count the     *)
(* table reports is max(1, ceil(|rows| / pageSize)) and the visible rows   *)
(* are the sorted rows from index (currentPage-1)*pageSize up to but       *)
(* excluding currentPage*pageSize.                                         *)
(***************************************************************************)
C13_PageCountAndSlice ==
    pagination =>
        /\ totalPages = lastPage(Len(sortedData))
        /\ Len(paginatedData) <= pageSize
        /\ \A i \in 1..Len(sortedData) :
              LET index == i - 1
                  shown == \E j \in 1..Len(paginatedData) :
                              /\ paginatedData[j] = sortedData[i]
                              /\ j - 1 = index - (currentPage - 1) * pageSize
              IN  shown <=> /\ (currentPage - 1) * pageSize <= index
                            /\ index < currentPage * pageSize
        /\ \A j \in 1..Len(paginatedData) :
              (currentPage - 1) * pageSize + j <= Len(sortedData)

(***************************************************************************)
(* C14.  From a page within [1, totalPages], Previous and Next leave       *)
(* currentPage within [1, totalPages]: Previous on page 1 and Next on the  *)
(* last page leave it unchanged, every other Previous moves it down by     *)
(* exactly one and every other Next up by exactly one.                     *)
(***************************************************************************)
C14_NavigationClamps ==
    [][ (/\ tableEv'.kind \in {"previous", "next"}
         /\ currentPage \in 1..lastPage(Len(sortedData)))
        => /\ currentPage' \in 1..lastPage(Len(sortedData))
           /\ tableEv'.kind = "previous" =>
                 currentPage' = IF currentPage = 1 THEN 1 ELSE currentPage - 1
           /\ tableEv'.kind = "next" =>
                 currentPage' = IF currentPage = lastPage(Len(sortedData))
                                THEN currentPage ELSE currentPage + 1 ]_vars

\* Next has just stopped at the last page of a dataset of several pages.
C14_Witness ==
    /\ pagination
    /\ tableEv.kind = "next"
    /\ totalPages = 2
    /\ currentPage = 2
    /\ Len(paginatedData) = 1

(***************************************************************************)
(* Table: row keys and selection.  A key is a cell value: a number or a    *)
(* string.                                                                 *)
(***************************************************************************)
\* JavaScript truthiness of a cell value: 0 and '' are falsy.
truthyCell(v) == IF v.t = "num" THEN v.n # 0 ELSE v.s # <<>>

\* The rowKey function of the test: record => `user-${record.id}`; the
\* prefix is the character code 0.
customRowKey(record) == Txt(<<0, record.id.n>>)

\* getRowKey(record, index); rowKey is a field name or "function".
getRowKey(record, index) ==
    IF rowKey = "function" THEN customRowKey(record)
    ELSE IF truthyCell(record[rowKey]) THEN record[rowKey]
    ELSE Num(index)

keysInclude(keys, key) == \E i \in 1..Len(keys) : keys[i] = key
keysWithout(keys, key) == SelectSeq(keys, LAMBDA k : k # key)

SelectionCall(keys, rows) == [keys |-> keys, rows |-> rows]

\* handleRowSelection(key, record): the onSelectionChange invocations.
handleRowSelection(key, record) ==
    IF ~selectable \/ ~hasOnSelectionChange THEN <<>>
    ELSE LET newSelectedKeys ==
                 IF keysInclude(selectedRowKeys, key)
                 THEN keysWithout(selectedRowKeys, key)
                 ELSE Append(selectedRowKeys, key)
             selectedRows ==
                 SelectSeq(data, LAMBDA item :
                              keysInclude(newSelectedKeys, getRowKey(item, 0)))
         IN  << SelectionCall(newSelectedKeys, selectedRows) >>

\* Variant: select-all over the rows of the visible page.
handleSelectAllVisiblePage ==
    IF ~selectable \/ ~hasOnSelectionChange THEN <<>>
    ELSE LET allKeys == [i \in 1..Len(paginatedData) |->
                            getRowKey(paginatedData[i], i - 1)]
             isAllSelected == \A i \in 1..Len(allKeys) :
                                 keysInclude(selectedRowKeys, allKeys[i])
         IN  IF isAllSelected THEN << SelectionCall(<<>>, <<>>) >>
             ELSE << SelectionCall(allKeys, paginatedData) >>

\* handleSelectAll(): the onSelectionChange invocations.
handleSelectAll ==
    IF ~selectable \/ ~hasOnSelectionChange THEN <<>>
    ELSE LET allKeys == [i \in 1..Len(data) |-> getRowKey(data[i], i - 1)]
             isAllSelected == \A i \in 1..Len(allKeys) :
                                 keysInclude(selectedRowKeys, allKeys[i])
         IN  IF isAllSelected THEN << SelectionCall(<<>>, <<>>) >>
             ELSE << SelectionCall(allKeys, data) >>

\* Variant: the header checkbox compares the number of selected keys with
\* the number of rows.
headerCheckedByCount == Len(selectedRowKeys) = Len(data) /\ Len(data) > 0

\* The checked attribute of the header checkbox.
headerChecked ==
    /\ Len(data) > 0
    /\ \A i \in 1..Len(data) : keysInclude(selectedRowKeys, getRowKey(data[i], i - 1))

\* The key and the checked attribute of the j-th rendered row.
renderedKey(j) == getRowKey(paginatedData[j], j - 1)
rowIsSelected(j) == keysInclude(selectedRowKeys, renderedKey(j))

\* The caller of a controlled table either stores the reported keys and
\* renders the table again with them, or ignores the report.
CallerSelection(reported, echo) ==
    IF reported # <<>> /\ echo THEN reported[Len(reported)].keys ELSE selectedRowKeys

\* A click on the checkbox of the j-th rendered row.
RowCheckboxClick(j, echo) ==
    /\ selectable
    /\ j \in 1..Len(paginatedData)
    /\ selCalls' = handleRowSelection(renderedKey(j), paginatedData[j])
    /\ selectedRowKeys' = CallerSelection(selCalls', echo)
    /\ tableEv' = TableEvent("row", j)
    /\ UNCHANGED <<tableProps, sortState, clickLog, pagingVars, selectionProps,
                   selectVars, tooltipVars>>

\* A click on the checkbox of the header.
HeaderCheckboxClick(echo) ==
    /\ selectable
    /\ selCalls' = handleSelectAll
    /\ selectedRowKeys' = CallerSelection(selCalls', echo)
    /\ tableEv' = TableEvent("all", 0)
    /\ UNCHANGED <<tableProps, sortState, clickLog, pagingVars, selectionProps,
                   selectVars, tooltipVars>>

(***************************************************************************)
(* Table: the selection fixture and specification.  A row either has its   *)
(* position as id, as mockData has, or the falsy id 0.                     *)
(***************************************************************************)
MaxKeyedRows == 2
RowKeys == {"id", "function"}

KeyedDatasets ==
    UNION { { [i \in 1..k |-> TableRow(i, IF f[i][1] THEN Num(i) ELSE Num(0), f[i][2])]
              : f \in [1..k -> BOOLEAN \X PageNames] }
            : k \in 0..MaxKeyedRows }

SelectionInit ==
    /\ columns = tableColumns
    /\ data \in KeyedDatasets
    /\ sortable = TRUE
    /\ sortState = NoSort
    /\ clickLog = <<>>
    /\ pagination = TRUE
    /\ pageSize \in PageSizes
    /\ currentPage = 1
    /\ rowKey \in RowKeys
    /\ selectable = TRUE
    /\ hasOnSelectionChange \in BOOLEAN
    /\ selectedRowKeys = <<>>
    /\ selCalls = <<>>
    /\ tableEv = TableMountEvent
    /\ SelectUnmounted
    /\ TooltipUnmounted

\* The dataset after the caller has removed its i-th row; the caller of
\* the selection fixture removes the last row.
withoutRow(rows, i) == SubSeq(rows, 1, i - 1) \o SubSeq(rows, i + 1, Len(rows))

SelectionNext ==
    \/ \E j \in 1..MaxKeyedRows, echo \in BOOLEAN : RowCheckboxClick(j, echo)
    \/ \E echo \in BOOLEAN : HeaderCheckboxClick(echo)
    \/ PreviousClick
    \/ NextClick
    \/ ColumnClick(1)
    \/ data # <<>> /\ ReplaceData(withoutRow(data, Len(data)))

SelectionSpec == SelectionInit /\ [][SelectionNext]_vars

(***************************************************************************)
(* Vocabulary of the selection properties.                                 *)
(***************************************************************************)
\* The row key of the i-th record of the dataset.
datasetKey(i) == getRowKey(data[i], i - 1)

hasDistinctKeys ==
    \A i, j \in 1..Len(data) : datasetKey(i) = datasetKey(j) => i = j

allRowsSelected ==
    \A i \in 1..Len(data) : keysInclude(selectedRowKeys, datasetKey(i))

\* The previous keys with key added, or removed when it was among them.
toggledKeys(keys, key) ==
    IF keysInclude(keys, key) THEN keysWithout(keys, key) ELSE Append(keys, key)

\* The records of the dataset whose row key is in keys, in dataset order.
recordsWithKeyIn(keys) ==
    LET picked == { i \in 1..Len(data) : keysInclude(keys, datasetKey(i)) }
        RECURSIVE collect(_)
        collect(i) == IF i > Len(data) THEN <<>>
                      ELSE (IF i \in picked THEN <<data[i]>> ELSE <<>>) \o collect(i + 1)
    IN  collect(1)

(***************************************************************************)
(* C15.  Select-all on a table of N rows with distinct keys, not all of    *)
(* them selected, reports to onSelectionChange the keys of all N rows of   *)
(* the dataset and all N records, whatever the sort and the page: the      *)
(* reported selection has N keys.                                          *)
(***************************************************************************)
C15_SelectAllCoversDataset ==
    [][ (/\ tableEv'.kind = "all"
         /\ hasOnSelectionChange
         /\ hasDistinctKeys
         /\ ~allRowsSelected)
        => /\ Len(selCalls') = 1
           /\ Len(selCalls'[1].keys) = Len(data)
           /\ \A i \in 1..Len(data) : selCalls'[1].keys[i] = datasetKey(i)
           /\ Cardinality({ selCalls'[1].keys[i] : i \in 1..Len(data) }) = Len(data)
           /\ selCalls'[1].rows = data ]_vars

\* Select-all has reported both rows while the sorted table showed the
\* one row of its second page.
C15_Witness ==
    /\ tableEv.kind = "all"
    /\ Len(selCalls) = 1
    /\ Len(selCalls[1].keys) = 2
    /\ selCalls[1].keys[1] # selCalls[1].keys[2]
    /\ selCalls[1].rows = data
    /\ sortState = Desc("name")
    /\ sortedData # data
    /\ currentPage = 2
    /\ Len(paginatedData) = 1

(***************************************************************************)
(* C16.  In a selectable table without selectedRowKeys and without         *)
(* onSelectionChange a click on the checkbox of an unselected row leaves   *)
(* that row selected in the rendered view, and a click on the checkbox of  *)
(* a selected row leaves it unselected.                                    *)
(***************************************************************************)
C16_UncontrolledSelectionIsInternal ==
    [][ \A j \in 1..MaxKeyedRows :
           (/\ tableEv' = TableEvent("row", j)
            /\ selectable
            /\ ~hasOnSelectionChange)
           => rowIsSelected(j)' = ~rowIsSelected(j) ]_vars

(***************************************************************************)
(* C17.  A toggle of a row checkbox in a table with onSelectionChange      *)
(* reports the previous keys with the toggled key added or removed and,    *)
(* as second argument, exactly the records of the dataset whose row key    *)
(* is among the reported keys, also for keys that fall back to the index.  *)
(***************************************************************************)
C17_RowToggleReportsKeysAndRecords ==
    [][ (/\ tableEv'.kind = "row"
         /\ selectable
         /\ hasOnSelectionChange)
        => /\ Len(selCalls') = 1
           /\ selCalls'[1].keys = toggledKeys(selectedRowKeys, renderedKey(tableEv'.row))
           /\ selCalls'[1].rows = recordsWithKeyIn(selCalls'[1].keys) ]_vars

(***************************************************************************)
(* Tooltip.  A handler maps the pending state (isVisible, timeoutRef and   *)
(* the scheduled timers) to the pending state after it.  Timer ids count   *)
(* up from 1; timeoutRef = 0 stands for an undefined timeoutRef.current.   *)
(***************************************************************************)
TooltipPending ==
    [isVisible |-> isVisible, timeoutRef |-> timeoutRef, timers |-> timers,
     nextTimer |-> nextTimer]

\* clearTimeout(id): a no-op for an id that is not scheduled.
clearTimeout(pending, id) == pending \ {id}

\* if (timeoutRef.current) clearTimeout(timeoutRef.current)
clearHeldTimer(st) ==
    IF st.timeoutRef # 0
    THEN [st EXCEPT !.timers = clearTimeout(st.timers, st.timeoutRef)]
    ELSE st

\* timeoutRef.current = setTimeout(callback, delay)
setTimeoutHeld(st) ==
    [st EXCEPT !.timers = st.timers \cup {st.nextTimer},
               !.timeoutRef = st.nextTimer,
               !.nextTimer = st.nextTimer + 1]

\* Variant: a mouse enter that schedules without clearing the held timer.
handleMouseEnterKeepsOld(st) ==
    IF tooltipDisabled THEN st ELSE setTimeoutHeld(st)

handleMouseEnter(st) ==
    IF tooltipDisabled THEN st ELSE setTimeoutHeld(clearHeldTimer(st))

handleMouseLeave(st) == [clearHeldTimer(st) EXCEPT !.isVisible = FALSE]

handleFocus(st) ==
    IF tooltipDisabled THEN st ELSE [st EXCEPT !.isVisible = TRUE]

handleBlur(st) == [st EXCEPT !.isVisible = FALSE]

\* The callback of the timer id: calculatePosition(); setIsVisible(true).
timerCallback(st, id) ==
    [st EXCEPT !.timers = st.timers \ {id}, !.isVisible = TRUE]

\* The cleanup of the effect with dependency [isVisible]; it runs when a
\* render commits another isVisible, and at unmount.
effectCleanup(st) == clearHeldTimer(st)

\* The render that follows an event: the effect is cleaned up and run
\* again when isVisible has changed.
afterRender(st) == IF st.isVisible # isVisible THEN effectCleanup(st) ELSE st

HoverStates == {"out", "waiting", "elapsed"}

TooltipCommit(st, kind, h) ==
    /\ isVisible' = afterRender(st).isVisible
    /\ timeoutRef' = afterRender(st).timeoutRef
    /\ timers' = afterRender(st).timers
    /\ nextTimer' = afterRender(st).nextTimer
    /\ tooltipEv' = kind
    /\ hover' = h
    /\ UNCHANGED <<tooltipDisabled, mounted, selectVars, tableVars>>

MaxTimers == 5

\* The pointer enters the trigger; the hover delay starts to run.
MouseEnter ==
    /\ mounted
    /\ nextTimer <= MaxTimers
    /\ TooltipCommit(handleMouseEnter(TooltipPending), "mouseEnter", "waiting")

MouseLeave ==
    /\ mounted
    /\ TooltipCommit(handleMouseLeave(TooltipPending), "mouseLeave", "out")

Focus ==
    /\ mounted
    /\ TooltipCommit(handleFocus(TooltipPending), "focus", hover)

Blur ==
    /\ mounted
    /\ TooltipCommit(handleBlur(TooltipPending), "blur", hover)

\* A scheduled timer expires.  The timer of the running hover expires
\* when the delay since the mouse enter has elapsed.
TimerExpires(id) ==
    /\ mounted
    /\ id \in timers
    /\ TooltipCommit(timerCallback(TooltipPending, id), "timer",
                     IF id = timeoutRef /\ hover = "waiting" THEN "elapsed" ELSE hover)

\* The delay since the mouse enter elapses with no timer left to expire.
DelayElapses ==
    /\ mounted
    /\ hover = "waiting"
    /\ timeoutRef \notin timers
    /\ TooltipCommit(TooltipPending, "delay", "elapsed")

Unmount ==
    /\ mounted
    /\ mounted' = FALSE
    /\ timers' = effectCleanup(TooltipPending).timers
    /\ tooltipEv' = "unmount"
    /\ UNCHANGED <<tooltipDisabled, isVisible, timeoutRef, nextTimer, hover,
                   selectVars, tableVars>>

TooltipInit ==
    /\ tooltipDisabled \in BOOLEAN
    /\ isVisible = FALSE
    /\ timeoutRef = 0
    /\ timers = {}
    /\ nextTimer = 1
    /\ mounted = TRUE
    /\ hover = "out"
    /\ tooltipEv = "mount"
    /\ SelectUnmounted
    /\ TableUnmounted

TooltipNext ==
    \/ MouseEnter
    \/ MouseLeave
    \/ Focus
    \/ Blur
    \/ \E id \in 1..MaxTimers : TimerExpires(id)
    \/ DelayElapses
    \/ Unmount

TooltipSpec == TooltipInit /\ [][TooltipNext]_vars

(***************************************************************************)
(* C18.  A mouse leave hides the tooltip and leaves no show timer          *)
(* scheduled; the tooltip becomes visible only by a focus or by the expiry *)
(* of the timer of a mouse enter that no mouse leave has followed; at most *)
(* one show timer is scheduled at any time.                                *)
(***************************************************************************)
C18_LeaveCancelsShow ==
    /\ [](Cardinality(timers) <= 1)
    /\ [][ /\ tooltipEv' = "mouseLeave" => (~isVisible' /\ timers' = {})
           /\ (~isVisible /\ isVisible')
                 => \/ tooltipEv' = "focus"
                    \/ tooltipEv' = "timer" /\ hover = "waiting" ]_vars

\* A mouse leave has just cancelled the timer of a second mouse enter.
C18_Witness ==
    /\ tooltipEv = "mouseLeave"
    /\ timeoutRef = 2
    /\ timers = {}
    /\ ~isVisible
    /\ hover = "out"

(***************************************************************************)
(* C19.  After a mouse enter on the trigger of an enabled tooltip that no  *)
(* mouse leave follows, the hover does not show the tooltip before the     *)
(* delay has elapsed, and the tooltip is visible when the delay has        *)
(* elapsed, whatever focus and blur events came in between.                *)
(***************************************************************************)
C19_HoverShowsAfterDelay ==
    [][ (~tooltipDisabled /\ hover = "waiting")
        => /\ hover' = "elapsed" => isVisible'
           /\ (hover' = "waiting" /\ ~isVisible /\ isVisible')
                 => tooltipEv' = "focus" ]_vars

(***************************************************************************)
(* C20.  In every state of Select a closed list has an empty search        *)
(* query: every transition that closes the list clears the query.          *)
(***************************************************************************)
C20_ClosedHasEmptyQuery ==
    ~isOpen => searchQuery = <<>>

(***************************************************************************)
(* Vocabulary of the keyboard properties.                                  *)
(***************************************************************************)
\* The last step was a press of key on a Select that is not disabled.
pressed(key) == ev'.kind = "key" /\ ev'.key = key /\ ~disabled

filteredCount == Len(filteredOptions)

\* The onChange invocations a commit of selection makes.
reports(selection) ==
    IF hasOnChange
    THEN /\ Len(calls') = 1
         /\ calls'[1].args = <<selection>>
    ELSE calls' = <<>>

(***************************************************************************)
(* C21.  Enter on an open list with 0 <= focusedIndex < filteredCount      *)
(* commits a toggle of the option at position focusedIndex of the          *)
(* filtered list, not of the full option list; afterwards the list is      *)
(* closed in single mode and still open in multiple mode.                  *)
(***************************************************************************)
C21_EnterCommitsFilteredOption ==
    [][ (pressed("Enter") /\ isOpen /\ focusedIsValid)
        => LET v == filteredOptions[focusedIndex + 1].value
           IN  /\ reports(toggled(currentValue, v))
               /\ ~isControlled => internalValue' = toggled(currentValue, v)
               /\ isOpen' = multiple ]_vars

\* Enter has committed the first option of a filtered list that does not
\* start with the first option of the register.
C21_Witness ==
    /\ ev.kind = "key" /\ ev.key = "Enter"
    /\ ev.open
    /\ ~multiple /\ ~isControlled
    /\ searchQuery = <<"d">>
    /\ ev.focus = 0
    /\ ev.committed = filteredOptions[1].value
    /\ ev.committed # options[1].value
    /\ internalValue = Str(ev.committed)
    /\ ~isOpen

(***************************************************************************)
(* C22.  Enter with no valid focused option (focusedIndex = -1 or          *)
(* focusedIndex >= filteredCount) opens a closed list and changes nothing  *)
(* on an open list: it never closes an open list and never changes the     *)
(* selection.                                                              *)
(***************************************************************************)
C22_EnterWithoutFocusOnlyOpens ==
    [][ (pressed("Enter") /\ ~focusedIsValid)
        => /\ isOpen'
           /\ isOpen => selectState' = selectState
           /\ currentValue' = currentValue
           /\ calls' = <<>> ]_vars

C24_ArrowDownIsModular ==
    [][ pressed("ArrowDown")
        => /\ (isOpen /\ filteredCount >= 1)
                 => /\ focusedIndex' = (focusedIndex + 1) % filteredCount
                    /\ isOpen'
           /\ ~isOpen
                 => /\ isOpen'
                    /\ focusedIndex' = focusedIndex
                    /\ searchQuery' = searchQuery
                    /\ currentValue' = currentValue
                    /\ calls' = <<>> ]_vars

(***************************************************************************)
(* C24, amended.  ArrowDown on an open list with filteredCount >= 1 sets   *)
(* focusedIndex to focusedIndex + 1 when that is an index of the filtered  *)
(* list and to 0 otherwise, which is (focusedIndex + 1) mod filteredCount  *)
(* for -1 <= focusedIndex < filteredCount and 0 for an index left over     *)
(* from a longer filtered list; the list stays open.  ArrowDown on a       *)
(* closed list only opens it.                                              *)
(***************************************************************************)
C24_ArrowDownWrapsToFirst ==
    [][ pressed("ArrowDown")
        => /\ (isOpen /\ filteredCount >= 1)
                 => /\ focusedIndex' = IF focusedIndex + 1 < filteredCount
                                       THEN focusedIndex + 1 ELSE 0
                    /\ (focusedIndex < filteredCount
                           => focusedIndex' = (focusedIndex + 1) % filteredCount)
                    /\ isOpen'
           /\ ~isOpen
                 => /\ isOpen'
                    /\ focusedIndex' = focusedIndex
                    /\ searchQuery' = searchQuery
                    /\ currentValue' = currentValue
                    /\ calls' = <<>> ]_vars

\* ArrowDown has taken an index left over from the full list to the first
\* of two filtered options.
C24_Witness ==
    /\ ev.kind = "key" /\ ev.key = "ArrowDown"
    /\ ~disabled
    /\ ev.open
    /\ filteredCount = 2
    /\ ev.focus = 2
    /\ focusedIndex = 0
    /\ isOpen

(***************************************************************************)
(* C25.  A click on the trigger of a Select that is not disabled and       *)
(* closed opens it with focusedIndex = -1, whatever option was focused by  *)
(* the keyboard or hovered before the list was last closed.                *)
(***************************************************************************)
C25_OpeningResetsFocus ==
    [][ (ev'.kind = "triggerClick" /\ ~disabled /\ ~isOpen)
        => /\ isOpen'
           /\ focusedIndex' = -1 ]_vars

(***************************************************************************)
(* C26.  Escape on an open list, and a mouse-down outside the control      *)
(* while the list is open, each close the list with focusedIndex = -1;     *)
(* neither changes the selection nor invokes onChange.                     *)
(***************************************************************************)
C26_EscapeAndOutsideClose ==
    [][ ((pressed("Escape") \/ ev'.kind = "clickOutside") /\ isOpen)
        => /\ ~isOpen'
           /\ focusedIndex' = -1
           /\ currentValue' = currentValue
           /\ internalValue' = internalValue
           /\ calls' = <<>> ]_vars

\* Escape has closed a list in which the second option was focused.
C26_Witness ==
    /\ ev.kind = "key" /\ ev.key = "Escape"
    /\ ~disabled
    /\ ev.open
    /\ ev.focus = 1
    /\ ~isOpen
    /\ focusedIndex = -1
    /\ hasOnChange /\ calls = <<>>

\* The columns whose header cell shows a direction arrow.
activeColumns ==
    { c \in 1..Len(columns) :
         sortable /\ columns[c].sortable # "false" /\ sortState.key = columns[c].key }

(***************************************************************************)
(* C27.  In every state of the table the sort state has a column exactly   *)
(* when it has a direction, after any sequence of clicks on sortable and   *)
(* non-sortable header cells, and at most one column is active.            *)
(***************************************************************************)
C27_SortStateIsConsistent ==
    /\ sortState.key = "null" <=> sortState.direction = "null"
    /\ sortState.key # "null" =>
          /\ isSortableColumn(sortState.key)
          /\ sortState.direction \in {"asc", "desc"}
    /\ Cardinality(activeColumns) <= 1

\* A second sortable column has taken over after a click on a header
\* cell that does not sort.
C27_Witness ==
    /\ Len(clickLog) = 3
    /\ clickLog[1].after = Asc("name")
    /\ clickLog[2].column = "email"
    /\ clickLog[2].after = Asc("name")
    /\ clickLog[3].column = "years"
    /\ sortState = Asc("years")
    /\ activeColumns = {2}

(***************************************************************************)
(* Select: the caller renders the control again with another value prop.   *)
(***************************************************************************)
ValueProps == {Undefined, Str("apple"), Str("banana")}

\* A render with props.value = v; the state cells keep their values.
SetValueProp(v) ==
    /\ v # controlledValue
    /\ controlledValue' = v
    /\ calls' = <<>>
    /\ ev' = Event("props", "", NoValue)
    /\ selBefore' = Undefined
    /\ twice' = NoTwice
    /\ UNCHANGED <<options, defaultValue, hasOnChange, multiple, searchable,
                   clearable, disabled, selectState, tableVars, tooltipVars>>

ControlInit ==
    /\ options = mockOptions
    /\ multiple = FALSE
    /\ disabled = FALSE
    /\ searchable = FALSE
    /\ clearable = FALSE
    /\ hasOnChange \in BOOLEAN
    /\ controlledValue \in {Undefined, Str("banana")}
    /\ defaultValue \in {Undefined, Str("apple")}
    /\ internalValue = initialInternalValue(defaultValue, multiple)
    /\ isOpen = FALSE
    /\ searchQuery = <<>>
    /\ focusedIndex = -1
    /\ calls = <<>>
    /\ ev = Event("mount", "", NoValue)
    /\ selBefore = Undefined
    /\ twice = NoTwice
    /\ TableUnmounted
    /\ TooltipUnmounted

ControlNext ==
    \/ TriggerClick
    \/ \E index \in 0..(Len(options) - 1) : OptionClick(index)
    \/ \E v \in ValueProps : SetValueProp(v)

ControlSpec == ControlInit /\ [][ControlNext]_vars

(***************************************************************************)
(* C28.  Whether a Select is controlled is decided at creation and never   *)
(* changes: no later render, whether it starts or stops supplying the      *)
(* value prop, switches between the external value and the private copy    *)
(* as the state that is rendered and mutated.                              *)
(***************************************************************************)
C28_ControlModeIsFixed ==
    [][ /\ isControlled' = isControlled
        /\ ~isControlled => currentValue' = internalValue'
        /\ isControlled => internalValue' = internalValue ]_vars

(***************************************************************************)
(* Vocabulary of the row-key properties.                                   *)
(***************************************************************************)
\* The key under which a row toggle looks a record up: getRowKey(item, 0).
toggleKey(record) == getRowKey(record, 0)

hasDistinctFieldValues ==
    \A i, j \in 1..Len(data) : data[i][rowKey] = data[j][rowKey] => i = j

\* A selected key that is the key of no row of the dataset.
hasStaleKey ==
    \E k \in 1..Len(selectedRowKeys) :
        \A i \in 1..Len(data) : selectedRowKeys[k] # datasetKey(i)

(***************************************************************************)
(* C29.  With a string rowKey, the rows of a dataset whose rowKey field    *)
(* values are pairwise distinct get pairwise distinct keys, also when a    *)
(* field value is 0 and the key falls back to the index, and a row has the *)
(* same key in the render of the sorted and paginated view, in the row     *)
(* toggle and in select-all.                                               *)
(***************************************************************************)
C29_RowKeysDistinctAndStable ==
    (rowKey # "function" /\ hasDistinctFieldValues)
    => /\ hasDistinctKeys
       /\ \A i \in 1..Len(data) :
             /\ toggleKey(data[i]) = datasetKey(i)
             /\ \A j \in 1..Len(paginatedData) :
                   paginatedData[j] = data[i] => renderedKey(j) = datasetKey(i)

====
